---- MODULE Spec2Model ----
(***************************************************************************)
(* Task-list HTTP service: the three routes of server/routes/todoRouter.js *)
(* (GET /, POST /create, DELETE /:id), the auth middleware that guards the *)
(* two mutating routes, and the in-memory task repository they call.       *)
(*                                                                         *)
(* The router is translated from src/server/routes/todoRouter.js (lines    *)
(* 1-72).  helper/auth.js, repository/todoRepository.js and the error      *)
(* responder of app.js are not among the source files; they are modelled   *)
(* from the specification (sections 4.1, 4.3 and 7).                       *)
(* Lines 74-124 of todoRouter.js repeat an earlier revision of the file    *)
(* (no length test, no delete route); the two revisions cannot be loaded   *)
(* together.  Spec, SpecFaulty and SpecConc follow the first, which the    *)
(* tests of src/unnamed/part_000 exercise; SpecLegacy mounts the second,   *)
(* which the tests of src/unnamed/part_001 exercise.                       *)
(*                                                                         *)
(* Strings are sequences of characters, so that trim, length and the       *)
(* textual path identifier are computed, not assumed.  A character is a    *)
(* one-character string, or the name of its code point ("U+00A0") where    *)
(* the character cannot be written in a string of this module.             *)
(*                                                                         *)
(* A handler runs without interruption up to `await todoRepo.x(...)`: the  *)
(* repository call has acted when the handler suspends, and the response   *)
(* is sent by a later step, when the handler is resumed.                   *)
(***************************************************************************)
EXTENDS Integers, Sequences, FiniteSets, Bags, TLC

VARIABLES
    tasks,      \* repository: the ordered collection of tasks
    counter,    \* repository: the identifier counter
    req,        \* the operation of the last step (an HTTP request, or the harness's reset)
    resp,       \* the response to req; none while its handler is suspended
    issued,     \* history: ids returned by 201 responses since the last reset
    removed,    \* history: number of 204 responses since the last reset
    events,     \* the outcomes of req so far, in order
    stages,     \* the stages req went through so far
    fault,      \* a failure is armed for the repository's next call
    before,     \* history: repository and fault as req found them on arrival
    inflight    \* the bag of requests suspended at the await of a store call

vars == <<tasks, counter, req, resp, issued, removed, events, stages, fault,
          before, inflight>>

\* Bound on the identifier counter (successful creates between two resets).
MaxCreates == 3

\* Bound on the number of requests suspended at the same time.
MaxInFlight == 2

-----------------------------------------------------------------------------
(* JavaScript values carried by a request *)

Undefined == [type |-> "undefined"]
Null == [type |-> "null"]
Num(n) == [type |-> "number", num |-> n]
Str(s) == [type |-> "string", chars |-> s]
Obj(d) == [type |-> "object", description |-> d]

\* JavaScript truthiness, as used by the `!x` tests of the router.
Truthy(v) ==
    CASE v.type = "undefined" -> FALSE
      [] v.type = "null" -> FALSE
      [] v.type = "number" -> v.num # 0
      [] v.type = "string" -> Len(v.chars) > 0
      [] OTHER -> TRUE

\* task.description: the property of an object, undefined on a primitive.
Description(task) ==
    IF task.type = "object" THEN task.description ELSE Undefined

\* ECMAScript WhiteSpace: TAB, VT, FF, SP, NBSP, ZWNBSP and the Unicode
\* space separators (category Zs).
WhiteSpace ==
    { "\t", "U+000B", "\f", " ", "U+00A0", "U+FEFF", "U+1680",
      "U+2000", "U+2001", "U+2002", "U+2003", "U+2004", "U+2005", "U+2006",
      "U+2007", "U+2008", "U+2009", "U+200A", "U+202F", "U+205F", "U+3000" }

\* ECMAScript LineTerminator: LF, CR, LS, PS.
LineTerminator == { "\n", "\r", "U+2028", "U+2029" }

\* What trim strips from both ends: white space and line terminators.
Strippable == WhiteSpace \cup LineTerminator

RECURSIVE TrimStart(_)
TrimStart(s) ==
    IF s = <<>> THEN <<>>
    ELSE IF Head(s) \in Strippable THEN TrimStart(Tail(s))
    ELSE s

RECURSIVE TrimEnd(_)
TrimEnd(s) ==
    IF s = <<>> THEN <<>>
    ELSE IF s[Len(s)] \in Strippable THEN TrimEnd(SubSeq(s, 1, Len(s) - 1))
    ELSE s

\* String.prototype.trim
Trim(s) == TrimEnd(TrimStart(s))

Digits == <<"0", "1", "2", "3", "4", "5", "6", "7", "8", "9">>

DigitVal(c) == (CHOOSE i \in 1..10 : Digits[i] = c) - 1

IsDigit(c) == \E i \in 1..10 : Digits[i] = c

\* String(n) for a non-negative integer: its decimal text.
RECURSIVE ToText(_)
ToText(n) ==
    IF n < 10 THEN <<Digits[n + 1]>>
    ELSE Append(ToText(n \div 10), Digits[(n % 10) + 1])

NaN == -1

RECURSIVE DecimalValue(_)
DecimalValue(s) ==
    IF s = <<>> THEN 0
    ELSE 10 * DecimalValue(SubSeq(s, 1, Len(s) - 1)) + DigitVal(s[Len(s)])

\* The numeric reading of a textual path parameter: a run of decimal digits
\* reads as its value, any other text as NaN (which equals no id).
ToNumber(s) ==
    IF s # <<>> /\ \A i \in 1..Len(s) : IsDigit(s[i]) THEN DecimalValue(s)
    ELSE NaN

-----------------------------------------------------------------------------
(* TaskStore (repository/todoRepository.js) *)

Store == [tasks |-> tasks, counter |-> counter]

\* A task holds the description as the value handed to create.
Task(id, description) == [id |-> id, description |-> description]

RepoGetAll(s) == s.tasks

RepoCreate(s, description) ==
    LET task == Task(s.counter + 1, description)
    IN  [store |-> [tasks |-> Append(s.tasks, task), counter |-> s.counter + 1],
         result |-> task]

RepoDeleteById(s, id) ==
    LET n == ToNumber(id)
        found == \E i \in 1..Len(s.tasks) : s.tasks[i].id = n
        keep(t) == t.id # n
    IN  [store |-> [tasks |-> SelectSeq(s.tasks, keep), counter |-> s.counter],
         result |-> found]

RepoReset == [tasks |-> <<>>, counter |-> 0]

-----------------------------------------------------------------------------
(* Responses *)

Json(status, body) == [status |-> status, body |-> body]

TaskList(ts) == [kind |-> "tasks", tasks |-> ts]
TaskBody(t) == [kind |-> "task", task |-> t]
ErrorBody(e) == [kind |-> "error", error |-> e]
MessageBody(m) == [kind |-> "message", message |-> m]
EmptyBody == [kind |-> "empty"]

\* next(err): the generic error responder of the application.
ErrorResponder == Json(500, [kind |-> "serverError"])

-----------------------------------------------------------------------------
(* AuthGate (helper/auth.js) *)

JWT_SECRET == "JWT_SECRET"

\* jwt.sign(payload, secret)
Sign(payload, secret) == [type |-> "jwt", payload |-> payload, secret |-> secret]

\* jwt.verify(token, secret) succeeds
Verifies(token, secret) == token.type = "jwt" /\ token.secret = secret

Auth(r) ==
    IF r.authorization.type = "undefined"
    THEN [pass |-> FALSE, resp |-> Json(401, [kind |-> "authMissing"])]
    ELSE IF ~Verifies(r.authorization, JWT_SECRET)
    THEN [pass |-> FALSE, resp |-> Json(401, MessageBody("Failed to authenticate token"))]
    ELSE [pass |-> TRUE, req |-> [r EXCEPT !.user = r.authorization.payload]]

-----------------------------------------------------------------------------
(* TaskRouter (server/routes/todoRouter.js) *)

Request(route, authorization, task, id) ==
    [route |-> route, authorization |-> authorization, task |-> task,
     id |-> id, user |-> Undefined]

\* What one run of a route leaves behind: the store, the response the client
\* gets, the outcomes in the order they happened (a response sent by the
\* route, or an error handed to next) and the stages the request went through.
Sent(status) == [kind |-> "response", status |-> status]
Forwarded == [kind |-> "forward"]

\* res.status(...).json(...) / .send(), then the handler returns
Replied(s, response, st) ==
    [store |-> s, resp |-> response, events |-> <<Sent(response.status)>>,
     stages |-> st]

\* catch (err) { next(err) }
Caught(s, st) ==
    [store |-> s, resp |-> ErrorResponder, events |-> <<Forwarded>>,
     stages |-> st]

\* A repository call made while a failure is armed throws instead of acting.
RepoThrows == fault

RECURSIVE Reverse(_)
Reverse(s) == IF s = <<>> THEN <<>> ELSE Append(Reverse(Tail(s)), Head(s))

\* Variant of ListHandler: the tasks returned newest first.
ListHandlerNewestFirst(s, r) ==
    IF RepoThrows THEN Caught(s, <<"handler", "store">>)
    ELSE Replied(s, Json(200, TaskList(Reverse(RepoGetAll(s)))),
                 <<"handler", "store">>)

\* Variant of ListHandler: the handler empties the repository after reading.
ListHandlerDraining(s, r) ==
    IF RepoThrows THEN Caught(s, <<"handler", "store">>)
    ELSE Replied(RepoReset, Json(200, TaskList(RepoGetAll(s))),
                 <<"handler", "store">>)

\* Variant of ListHandler: no try/catch around the repository call, so a
\* failure of getAll escapes the handler and nothing is forwarded.
ListHandlerUncaught(s, r) ==
    IF RepoThrows
    THEN [store |-> s, resp |-> Json(0, EmptyBody), events |-> <<>>,
          stages |-> <<"handler", "store">>]
    ELSE Replied(s, Json(200, TaskList(RepoGetAll(s))), <<"handler", "store">>)

\* router.get("/") handler
ListHandler(s, r) ==
    IF RepoThrows THEN Caught(s, <<"handler", "store">>)
    ELSE Replied(s, Json(200, TaskList(RepoGetAll(s))), <<"handler", "store">>)

\* Variant of CreateValidation: the length test written `<= 3`.
CreateValidationOffByOne(task) ==
    IF ~Truthy(task) \/ ~Truthy(Description(task)) THEN "required"
    ELSE IF Description(task).type # "string" THEN "throw"
    ELSE IF Len(Trim(Description(task).chars)) <= 3 THEN "short"
    ELSE "ok"

\* Variant of CreateValidation: the presence test written `!task` only.
CreateValidationTaskOnly(task) ==
    IF ~Truthy(task) THEN "required"
    ELSE IF Description(task).type # "string" THEN "throw"
    ELSE IF Len(Trim(Description(task).chars)) < 3 THEN "short"
    ELSE "ok"

\* The two validation tests of the create handler, in the order of the code.
\* "throw" is the TypeError of calling .trim on a value that is not a string.
CreateValidation(task) ==
    IF ~Truthy(task) \/ ~Truthy(Description(task)) THEN "required"
    ELSE IF Description(task).type # "string" THEN "throw"
    ELSE IF Len(Trim(Description(task).chars)) < 3 THEN "short"
    ELSE "ok"

\* Variant of CreateHandler: the repository is called before the validation
\* result is looked at, so a rejected request also consumes an identifier.
CreateHandlerEager(s, r) ==
    LET v == CreateValidation(r.task)
        d == Description(r.task)
        created == RepoCreate(s, IF d.type = "string" THEN d ELSE Str(<<>>))
    IN  CASE v = "throw" -> Caught(s, <<"handler">>)
          [] RepoThrows -> Caught(s, <<"handler", "store">>)
          [] v = "required" ->
               Replied(created.store, Json(400, ErrorBody("Task is required")),
                       <<"handler", "store">>)
          [] v = "short" ->
               Replied(created.store, Json(400, ErrorBody("Description too short")),
                       <<"handler", "store">>)
          [] OTHER ->
               Replied(created.store, Json(201, TaskBody(created.result)),
                       <<"handler", "store">>)

\* Variant of CreateHandler: the `return` in front of the first 400 response
\* is missing, so the handler runs on into the length test, which throws on
\* the missing description, and the error is forwarded after the response.
CreateHandlerNoReturn(s, r) ==
    LET v == CreateValidation(r.task)
    IN  CASE v = "required" ->
               [store |-> s, resp |-> Json(400, ErrorBody("Task is required")),
                events |-> <<Sent(400), Forwarded>>, stages |-> <<"handler">>]
          [] v = "short" ->
               Replied(s, Json(400, ErrorBody("Description too short")),
                       <<"handler">>)
          [] v = "throw" -> Caught(s, <<"handler">>)
          [] RepoThrows -> Caught(s, <<"handler", "store">>)
          [] OTHER ->
               LET created == RepoCreate(s, Description(r.task))
               IN  Replied(created.store, Json(201, TaskBody(created.result)),
                           <<"handler", "store">>)

\* router.post("/create") handler
CreateHandler(s, r) ==
    LET v == CreateValidation(r.task)
    IN  CASE v = "required" ->
               Replied(s, Json(400, ErrorBody("Task is required")), <<"handler">>)
          [] v = "short" ->
               Replied(s, Json(400, ErrorBody("Description too short")),
                       <<"handler">>)
          [] v = "throw" -> Caught(s, <<"handler">>)
          [] RepoThrows -> Caught(s, <<"handler", "store">>)
          [] OTHER ->
               LET created == RepoCreate(s, Description(r.task))
               IN  Replied(created.store, Json(201, TaskBody(created.result)),
                           <<"handler", "store">>)

\* Variant of DeleteHandler: the test on the repository's result inverted.
DeleteHandlerInverted(s, r) ==
    IF RepoThrows THEN Caught(s, <<"handler", "store">>)
    ELSE LET deleted == RepoDeleteById(s, r.id)
         IN  IF deleted.result
             THEN Replied(deleted.store, Json(404, ErrorBody("Task not found")),
                          <<"handler", "store">>)
             ELSE Replied(deleted.store, Json(204, EmptyBody),
                          <<"handler", "store">>)

\* Variant of DeleteHandler: the repository's result is not tested.
DeleteHandlerNoCheck(s, r) ==
    IF RepoThrows THEN Caught(s, <<"handler", "store">>)
    ELSE LET deleted == RepoDeleteById(s, r.id)
         IN  Replied(deleted.store, Json(204, EmptyBody), <<"handler", "store">>)

\* router.delete("/:id") handler
DeleteHandler(s, r) ==
    IF RepoThrows THEN Caught(s, <<"handler", "store">>)
    ELSE LET deleted == RepoDeleteById(s, r.id)
         IN  IF ~deleted.result
             THEN Replied(deleted.store, Json(404, ErrorBody("Task not found")),
                          <<"handler", "store">>)
             ELSE Replied(deleted.store, Json(204, EmptyBody),
                          <<"handler", "store">>)

\* A route with the auth middleware in front: auth answers, or calls next().
Guarded(s, r, handled) ==
    LET a == Auth(r)
    IN  IF a.pass
        THEN [handled EXCEPT !.stages = <<"auth">> \o @]
        ELSE Replied(s, a.resp, <<"auth">>)

\* Variant of ListRoute: the auth middleware put in front of the handler.
ListRouteGuarded(s, r) == Guarded(s, r, ListHandler(s, r))

\* router.get("/", handler)
ListRoute(s, r) == ListHandler(s, r)

\* Variant of CreateRoute: the handler's validation answers before the
\* credential is looked at.
CreateRouteValidatesFirst(s, r) ==
    IF CreateValidation(r.task) \in {"required", "short"}
    THEN CreateHandler(s, r)
    ELSE Guarded(s, r, CreateHandler(s, r))

\* router.post("/create", auth, handler)
CreateRoute(s, r) == Guarded(s, r, CreateHandler(s, r))

\* Variant of DeleteRoute: the auth middleware left out of the route.
DeleteRouteOpen(s, r) == DeleteHandler(s, r)

\* router.delete("/:id", auth, handler)
DeleteRoute(s, r) == Guarded(s, r, DeleteHandler(s, r))

-----------------------------------------------------------------------------
(* TaskRouter, second revision in the file (todoRouter.js lines 74-124):   *)
(* list and create only, and create without the length test.               *)

\* router.get("/") handler, second revision
ListHandlerLegacy(s, r) ==
    IF RepoThrows THEN Caught(s, <<"handler", "store">>)
    ELSE Replied(s, Json(200, TaskList(RepoGetAll(s))), <<"handler", "store">>)

\* router.post("/create") handler, second revision: the presence test only,
\* then the description goes to the repository as it was sent.
CreateHandlerLegacy(s, r) ==
    IF ~Truthy(r.task) \/ ~Truthy(Description(r.task))
    THEN Replied(s, Json(400, ErrorBody("Task is required")), <<"handler">>)
    ELSE IF RepoThrows THEN Caught(s, <<"handler", "store">>)
    ELSE LET created == RepoCreate(s, Description(r.task))
         IN  Replied(created.store, Json(201, TaskBody(created.result)),
                     <<"handler", "store">>)

\* router.get("/", handler), second revision
ListRouteLegacy(s, r) == ListHandlerLegacy(s, r)

\* router.post("/create", auth, handler), second revision
CreateRouteLegacy(s, r) == Guarded(s, r, CreateHandlerLegacy(s, r))

-----------------------------------------------------------------------------
(* Inputs *)

ValidToken == Sign([email |-> "student@example.com"], JWT_SECRET)

\* The Authorization header: absent, a raw string that is no token, a token
\* signed with another secret, a token signed with the service's secret.
Tokens ==
    { Undefined,
      [type |-> "raw", text |-> "invalid-token"],
      Sign([email |-> "student@example.com"], "other-secret"),
      ValidToken }

TestTask == <<"T", "e", "s", "t", " ", "t", "a", "s", "k">>

TaskToDelete ==
    <<"T", "a", "s", "k", " ", "t", "o", " ", "d", "e", "l", "e", "t", "e">>

\* The descriptions of the tests, the empty string, and descriptions around
\* the length test: white space and line terminators of every kind at the
\* ends, and U+200B (zero width space), which trim does not strip.
DescriptionStrings ==
    { <<>>, <<" ">>, <<" ", "\t", " ">>, <<"\r", "\n">>, <<"A">>, <<"X">>,
      <<" ", "a", "b", " ">>, <<"a", "b", "\r">>, <<"\f", "a", "b">>,
      <<"U+000B", "a", "b", "U+00A0">>, <<"U+FEFF", "a", "U+2028">>,
      <<"U+3000", "a", "b", "U+2029">>,
      <<"\r", "a", "b", "U+200B", "\n">>, TaskToDelete, TestTask }

\* body.task: absent, null, a primitive, an object without description, an
\* object whose description is null, a number or a string.
TaskValues ==
    { Undefined, Null, Str(<<"a", "b", "c">>), Obj(Undefined), Obj(Null),
      Obj(Num(0)), Obj(Num(7)) }
    \cup { Obj(Str(d)) : d \in DescriptionStrings }

\* The :id path parameter.
PathIds ==
    { ToText(n) : n \in 0..(MaxCreates + 1) }
    \cup { <<"9", "9", "9">>, <<"0", "1">>, <<"a", "b", "c">> }

-----------------------------------------------------------------------------
(* Operations *)

Init ==
    /\ tasks = <<>>
    /\ counter = 0
    /\ req = Request("none", Undefined, Undefined, <<>>)
    /\ resp = Json(0, EmptyBody)
    /\ issued = <<>>
    /\ removed = 0
    /\ events = <<>>
    /\ stages = <<>>
    /\ fault = FALSE
    /\ before = [tasks |-> <<>>, counter |-> 0, fault |-> FALSE]
    /\ inflight = EmptyBag

Reached(st, stage) == \E i \in 1..Len(st) : st[i] = stage

\* No response has been sent for the request yet.
NoResponse == Json(0, EmptyBody)

\* The response leaves.
Publish(r, out) ==
    /\ req' = r
    /\ resp' = out.resp
    /\ issued' = IF r.route = "create" /\ out.resp.status = 201
                 THEN Append(issued, out.resp.body.task.id)
                 ELSE issued
    /\ removed' = IF r.route = "delete" /\ out.resp.status = 204
                  THEN removed + 1
                  ELSE removed
    /\ events' = out.events
    /\ stages' = out.stages

\* The value getAll returned to a list handler may be the repository's own
\* array, which the repository changes in place or replaces on later calls:
\* `seen` holds the sequences that value may stand for, from the sequence at
\* the call on.  The values create and deleteById return do not change.
Views(r, out) ==
    IF r.route = "list" /\ out.resp.status = 200 /\ out.resp.body.kind = "tasks"
    THEN {out.resp.body.tasks}
    ELSE {}

\* A handler suspended at its await: the request, what the handler will go
\* on with (`out`, the value its repository call returned), the repository as
\* the request found it, and what its call did to the collection.
Suspended(r, out) ==
    [req |-> r, held |-> out, seen |-> Views(r, out),
     before |-> [tasks |-> tasks, counter |-> counter, fault |-> fault],
     appended |-> SubSeq(out.store.tasks, Len(tasks) + 1, Len(out.store.tasks)),
     dropped |-> IF Len(out.store.tasks) < Len(tasks)
                 THEN Len(tasks) - Len(out.store.tasks)
                 ELSE 0]

\* The repository's collection has become ts while handler h is suspended.
Observe(h, ts) ==
    IF h.seen = {} THEN h ELSE [h EXCEPT !.seen = @ \cup {ts}]

RECURSIVE ObserveAll(_, _)
ObserveAll(B, ts) ==
    IF DOMAIN B = {} THEN EmptyBag
    ELSE LET h == CHOOSE g \in DOMAIN B : TRUE
             rest == [g \in DOMAIN B \ {h} |-> B[g]]
         IN  [g \in {Observe(h, ts)} |-> B[h]] (+) ObserveAll(rest, ts)

\* A request arrives and runs up to its first suspension.  Rejected before
\* any repository call (401, 400, or a throw of the validation), it is
\* answered in this step.  Otherwise the repository call acts in this step
\* and the handler suspends at its await: no response has been sent.
Begin(r, out) ==
    /\ out.store.counter <= MaxCreates
    /\ tasks' = out.store.tasks
    /\ counter' = out.store.counter
    /\ fault' = (fault /\ ~Reached(out.stages, "store"))
    /\ before' = [tasks |-> tasks, counter |-> counter, fault |-> fault]
    /\ IF Reached(out.stages, "store")
       THEN /\ inflight' = ObserveAll(inflight, out.store.tasks)
                              (+) SetToBag({Suspended(r, out)})
            /\ req' = r
            /\ resp' = NoResponse
            /\ events' = <<>>
            /\ stages' = out.stages
            /\ UNCHANGED <<issued, removed>>
       ELSE /\ Publish(r, out)
            /\ UNCHANGED inflight

\* Variant of AfterAwait: the 201 body is read back from the end of the store
\* when the handler resumes, not taken from the value the call returned.
AfterAwaitRereads(s, h) ==
    IF h.held.resp.status = 201 /\ s.tasks # <<>>
    THEN {[h.held EXCEPT !.resp = Json(201, TaskBody(s.tasks[Len(s.tasks)]))]}
    ELSE IF h.seen = {} THEN {h.held}
    ELSE {[h.held EXCEPT !.resp.body.tasks = ts] : ts \in h.seen}

\* The handler after its await: it goes on with the value the repository
\* call returned (tasks, created, deleted), whatever the store holds by now.
\* The list handler serialises the array it holds when it is resumed, which
\* is the sequence at its call or any sequence that array has been since.
AfterAwait(s, h) ==
    IF h.seen = {} THEN {h.held}
    ELSE {[h.held EXCEPT !.resp.body.tasks = ts] : ts \in h.seen}

\* A suspended handler is resumed and sends its response, or forwards the
\* error its repository call threw.
ResumeReq ==
    \E h \in BagToSet(inflight) :
      \E out \in AfterAwait(Store, h) :
        /\ Publish(h.req, out)
        /\ before' = h.before
        /\ inflight' = inflight (-) SetToBag({h})
        /\ UNCHANGED <<tasks, counter, fault>>

\* The client of Spec, SpecFaulty and SpecLegacy sends a request when the
\* previous one has been answered, as every test does (`await request(app)`).
Idle == inflight = EmptyBag

\* GET / arrives
ListReq ==
    \E tok \in Tokens :
        LET r == Request("list", tok, Undefined, <<>>)
        IN  Idle /\ Begin(r, ListRoute(Store, r))

\* POST /create arrives
CreateReq ==
    \E tok \in Tokens, task \in TaskValues :
        LET r == Request("create", tok, task, <<>>)
        IN  Idle /\ Begin(r, CreateRoute(Store, r))

\* DELETE /:id arrives
DeleteReq ==
    \E tok \in Tokens, id \in PathIds :
        LET r == Request("delete", tok, Undefined, id)
        IN  Idle /\ Begin(r, DeleteRoute(Store, r))

\* Variant of Reset: the hook runs without calling the repository's reset.
ResetSkipped ==
    /\ Idle
    /\ req' = Request("reset", Undefined, Undefined, <<>>)
    /\ UNCHANGED <<tasks, counter, issued, removed, resp, events, stages, fault,
                   before, inflight>>

\* beforeEach(() => todoRepo.reset()): between two tests, no request pending
Reset ==
    /\ Idle
    /\ tasks' = RepoReset.tasks
    /\ counter' = RepoReset.counter
    /\ req' = Request("reset", Undefined, Undefined, <<>>)
    /\ issued' = <<>>
    /\ removed' = 0
    /\ UNCHANGED <<resp, events, stages, fault, before, inflight>>

Next == ListReq \/ CreateReq \/ DeleteReq \/ ResumeReq \/ Reset

\* The service with its requests sent one after the other.
Spec == Init /\ [][Next]_vars

\* The repository's next call is set to fail (an unexpected store failure).
ArmFault ==
    /\ ~fault
    /\ fault' = TRUE
    /\ req' = Request("fault", Undefined, Undefined, <<>>)
    /\ UNCHANGED <<tasks, counter, resp, issued, removed, events, stages,
                   before, inflight>>

NextFaulty == ListReq \/ CreateReq \/ DeleteReq \/ ResumeReq \/ Reset \/ ArmFault

\* The service over a repository whose calls may fail unexpectedly.
SpecFaulty == Init /\ [][NextFaulty]_vars

-----------------------------------------------------------------------------
(* Requests in flight at the same time: a request may arrive while the      *)
(* handlers of earlier ones are suspended.                                  *)

ShortTask == <<"a", " ", "b">>

ConcRequests ==
    { Request("list", Undefined, Undefined, <<>>),
      Request("create", ValidToken, Obj(Str(TestTask)), <<>>),
      Request("create", ValidToken, Obj(Str(ShortTask)), <<>>),
      Request("create", ValidToken, Obj(Str(<<"A">>)), <<>>),
      Request("delete", ValidToken, Undefined, <<"1">>) }

Dispatch(s, r) ==
    CASE r.route = "list" -> ListRoute(s, r)
      [] r.route = "create" -> CreateRoute(s, r)
      [] OTHER -> DeleteRoute(s, r)

\* A request arrives, whatever is suspended.
BeginReq ==
    \E r \in ConcRequests :
        /\ BagCardinality(inflight) < MaxInFlight
        /\ Begin(r, Dispatch(Store, r))

NextConc == BeginReq \/ ResumeReq

\* The service with handlers interleaving at their awaits.
SpecConc == Init /\ [][NextConc]_vars

-----------------------------------------------------------------------------
(* The second revision mounted *)

\* The descriptions sent to the second revision, which stores every one of
\* them but the empty string.
LegacyDescriptionStrings ==
    { <<>>, <<" ">>, <<"A">>, <<"X">>, <<"a", "b", "\r">>, TestTask }

\* body.task values sent to the second revision; a description that is a
\* non-zero number is stored as that number.
LegacyTaskValues ==
    { Undefined, Null, Str(<<"a", "b", "c">>), Obj(Undefined), Obj(Null),
      Obj(Num(0)), Obj(Num(7)) }
    \cup { Obj(Str(d)) : d \in LegacyDescriptionStrings }

\* GET / arrives at the second revision
ListReqLegacy ==
    \E tok \in Tokens :
        LET r == Request("list", tok, Undefined, <<>>)
        IN  Idle /\ Begin(r, ListRouteLegacy(Store, r))

\* POST /create arrives at the second revision
CreateReqLegacy ==
    \E tok \in Tokens, task \in LegacyTaskValues :
        LET r == Request("create", tok, task, <<>>)
        IN  Idle /\ Begin(r, CreateRouteLegacy(Store, r))

NextLegacy == ListReqLegacy \/ CreateReqLegacy \/ ResumeReq \/ Reset

\* The service with the second revision of the router mounted.
SpecLegacy == Init /\ [][NextLegacy]_vars

TypeOK ==
    /\ counter \in 0..MaxCreates
    /\ Len(tasks) <= counter
    /\ resp.status \in {0, 200, 201, 204, 400, 401, 404, 500}

-----------------------------------------------------------------------------
(* Properties *)

Authenticated(r) == Verifies(r.authorization, JWT_SECRET)

AnyListRequest == Request("list", Undefined, Undefined, <<>>)

Routes == {"list", "create", "delete"}

\* The handling of request req has ended and nothing is suspended: req met
\* the repository `Before`, and the repository is now as req left it.
Done == req.route \in Routes /\ Idle

Before == [tasks |-> before.tasks, counter |-> before.counter]

\* Request r is a create with a valid token and a task object carrying a
\* string description.
StringCreate(r) ==
    /\ r.route = "create"
    /\ Authenticated(r)
    /\ r.task.type = "object"
    /\ r.task.description.type = "string"

\* C1: counted from the last reset, the k-th create answered 201 returned id
\* k, however many deletes and rejected requests lie in between: ids start at
\* 1, go up by exactly 1, and no id is handed out twice.
C1_IdsSequential ==
    \A k \in 1..Len(issued) : issued[k] = k

\* C1 witness: a create has just returned id 3 while a single task is left
\* in the store, so earlier tasks were deleted before and between the creates.
C1_Witness ==
    /\ Done
    /\ req.route = "create"
    /\ resp.status = 201
    /\ resp.body.task.id = 3
    /\ Len(tasks) = 1
    /\ removed = 2

\* C2: a create or delete request without credential, or with a credential
\* that does not verify, is answered 401 (with the message "Failed to
\* authenticate token" when a credential was sent), and the task sequence and
\* the counter are left as the request found them.
C2_UnauthenticatedRejected ==
    (Done /\ req.route \in {"create", "delete"} /\ ~Authenticated(req))
    => /\ resp.status = 401
       /\ req.authorization.type # "undefined"
            => resp.body = MessageBody("Failed to authenticate token")
       /\ tasks = before.tasks
       /\ counter = before.counter

\* C2 witness: a delete with a raw non-token credential was answered 401
\* and the task it names is still in the store.
C2_Witness ==
    /\ Done
    /\ req.route = "delete"
    /\ req.authorization.type = "raw"
    /\ resp.status = 401
    /\ \E i \in 1..Len(tasks) : req.id = ToText(tasks[i].id)

\* C3: a create with a valid token and a description of trimmed length >= 3
\* is answered 201 with the created task, which carries the description as
\* sent and is appended as the last element of the store, where a following
\* list request finds it; from a reset store "Test task" gets id 1 and the
\* list is exactly that one task.
C3_CreateAnswered ==
    (Done /\ StringCreate(req) /\ Len(Trim(req.task.description.chars)) >= 3)
    => /\ resp.status = 201
       /\ resp.body.kind = "task"
       /\ resp.body.task.description = req.task.description
       /\ tasks = Append(before.tasks, resp.body.task)
       /\ LET listed == ListRoute(Store, AnyListRequest).resp
          IN  /\ listed.status = 200
              /\ listed.body.tasks[Len(listed.body.tasks)] = resp.body.task
              /\ (Before = RepoReset /\ req.task.description.chars = TestTask)
                   => /\ resp.body.task = Task(1, Str(TestTask))
                      /\ listed.body.tasks = <<Task(1, Str(TestTask))>>

\* C3 witness: a description with line terminators at both ends and of
\* trimmed length exactly 3 was accepted as sent and is the last of several
\* stored tasks.
C3_Witness ==
    /\ Done
    /\ req.route = "create"
    /\ req.task = Obj(Str(<<"\r", "a", "b", "U+200B", "\n">>))
    /\ resp.status = 201
    /\ resp.body.task.description = Str(<<"\r", "a", "b", "U+200B", "\n">>)
    /\ Len(tasks) >= 2
    /\ tasks[Len(tasks)] = resp.body.task

\* C4: an authenticated create whose body has no task (absent or null) or
\* whose task has no description is answered 400 {error: "Task is required"},
\* never "Description too short", and the store is unchanged.
C4_MissingTaskRejected ==
    (/\ Done
     /\ req.route = "create"
     /\ Authenticated(req)
     /\ \/ req.task.type \in {"undefined", "null"}
        \/ req.task.type = "object" /\ req.task.description.type = "undefined")
    => /\ resp = Json(400, ErrorBody("Task is required"))
       /\ tasks = before.tasks
       /\ counter = before.counter

\* C4 witness: a task object without description was rejected as missing
\* while the store held tasks.
C4_Witness ==
    /\ Done
    /\ req.route = "create"
    /\ Authenticated(req)
    /\ req.task = Obj(Undefined)
    /\ resp = Json(400, ErrorBody("Task is required"))
    /\ Len(tasks) > 0

\* C5: every authenticated create whose task carries a string description
\* that trims to fewer than 3 characters, the empty string and white-space
\* only strings included, is answered 400 {error: "Description too short"}
\* and the store is not touched.
C5_ShortDescriptionRejected ==
    (Done /\ StringCreate(req) /\ Len(Trim(req.task.description.chars)) < 3)
    => /\ resp = Json(400, ErrorBody("Description too short"))
       /\ tasks = before.tasks
       /\ counter = before.counter

\* C6: an authenticated delete whose path id is the decimal text of the id of
\* a stored task is answered 204 with an empty body and removes exactly that
\* task: the others keep id, description and relative order, the counter is
\* unchanged, and a following list request no longer holds the deleted task.
C6_DeleteRemovesExactlyOne ==
    \A i \in 1..Len(before.tasks) :
      (/\ Done
       /\ req.route = "delete"
       /\ Authenticated(req)
       /\ req.id = ToText(before.tasks[i].id))
      => /\ resp = Json(204, EmptyBody)
         /\ tasks = SubSeq(before.tasks, 1, i - 1)
                      \o SubSeq(before.tasks, i + 1, Len(before.tasks))
         /\ counter = before.counter
         /\ LET listed == ListRoute(Store, AnyListRequest).resp.body.tasks
            IN  \A j \in 1..Len(listed) : listed[j].id # before.tasks[i].id

\* C6 witness: the task in the middle of three was deleted through its
\* decimal path id; the first and the last are left, in that order.
C6_Witness ==
    /\ Done
    /\ req.route = "delete"
    /\ req.id = <<"2">>
    /\ resp.status = 204
    /\ Len(before.tasks) = 3
    /\ Len(tasks) = 2
    /\ tasks[1].id = 1
    /\ tasks[2].id = 3

\* The path id of request r reads as the id of no task of ts.
MatchesNoTask(r, ts) ==
    \A i \in 1..Len(ts) : ToNumber(r.id) # ts[i].id

\* C7: an authenticated delete whose identifier matches no stored task (999
\* on an empty store, the id of a task already deleted) is answered 404
\* {error: "Task not found"} and leaves task sequence and counter unchanged.
C7_DeleteUnknownNotFound ==
    (/\ Done
     /\ req.route = "delete"
     /\ Authenticated(req)
     /\ MatchesNoTask(req, before.tasks))
    => /\ resp = Json(404, ErrorBody("Task not found"))
       /\ tasks = before.tasks
       /\ counter = before.counter

\* C7 witness: the id of a task that had been created and deleted was
\* deleted again, with other tasks in the store, and answered 404.
C7_Witness ==
    /\ Done
    /\ req.route = "delete"
    /\ Authenticated(req)
    /\ req.id = <<"1">>
    /\ resp.status = 404
    /\ removed >= 1
    /\ Len(tasks) >= 1

\* C8: a list request, with or without credential, is answered 200 with the
\* full task sequence of the store; after n creates and no delete since the
\* last reset these are exactly the n created tasks in creation order, and on
\* an empty store the body is the empty array.
C8_ListReturnsAll ==
    (Done /\ req.route = "list")
    => /\ resp = Json(200, TaskList(before.tasks))
       /\ resp.body.tasks = tasks
       /\ removed = 0
            => /\ Len(resp.body.tasks) = Len(issued)
               /\ \A k \in 1..Len(issued) : resp.body.tasks[k].id = issued[k]
       /\ before.tasks = <<>> => resp.body.tasks = <<>>

\* C8 witness: a list request without credential returned two tasks after
\* two creates and no delete.
C8_Witness ==
    /\ Done
    /\ req.route = "list"
    /\ req.authorization = Undefined
    /\ resp.status = 200
    /\ Len(resp.body.tasks) = 2
    /\ Len(issued) = 2
    /\ removed = 0

\* C9: after reset the store is empty, a list returns the empty array and
\* the counter is at its initial value, whatever preceded; the first create
\* answered 201 after the reset returns id 1 and that task is deleted
\* through the path /1.
C9_ResetRestoresInitial ==
    /\ req.route = "reset"
         => /\ tasks = <<>>
            /\ counter = 0
            /\ ListRoute(Store, AnyListRequest).resp = Json(200, TaskList(<<>>))
    /\ (Done /\ req.route = "create" /\ resp.status = 201 /\ Len(issued) = 1)
         => /\ resp.body.task.id = 1
            /\ LET gone == DeleteRoute(Store,
                               Request("delete", ValidToken, Undefined, <<"1">>))
               IN  /\ gone.resp = Json(204, EmptyBody)
                   /\ \A j \in 1..Len(gone.store.tasks) :
                        gone.store.tasks[j].id # 1

\* C9 witness: the reset came after creates and a successful delete (the
\* last response is still that 204) and left the store empty.
C9_Witness ==
    /\ req.route = "reset"
    /\ resp.status = 204
    /\ before.counter >= 2
    /\ tasks = <<>>
    /\ counter = 0

\* C10: in every reachable state the ids of the stored tasks are pairwise
\* distinct and strictly increasing along the sequence (insertion order),
\* and a list request returns the tasks in that order.
C10_UniqueOrdered ==
    /\ \A i, j \in 1..Len(tasks) : i < j => tasks[i].id < tasks[j].id
    /\ LET listed == ListRoute(Store, AnyListRequest).resp.body.tasks
       IN  listed = tasks

\* C10 witness: two tasks are stored with a gap between their ids, left by
\* a delete.
C10_Witness ==
    /\ Len(tasks) = 2
    /\ tasks[1].id = 1
    /\ tasks[2].id = 3

\* C11: in every state reachable through the routes, every stored task has
\* a description that is a string whose trimmed length is at least 3.
C11_DescriptionsValid ==
    \A i \in 1..Len(tasks) :
        /\ tasks[i].description.type = "string"
        /\ Len(Trim(tasks[i].description.chars)) >= 3

\* C12: on the two protected routes a request with a missing or invalid
\* credential ends in the auth stage with the single response 401; it does
\* not reach the handler or the store, so it is never answered 400 or 404,
\* whatever its body or path id.
C12_AuthFirst ==
    (req.route \in {"create", "delete"} /\ ~Authenticated(req))
    => /\ stages = <<"auth">>
       /\ events = <<Sent(401)>>
       /\ resp.status \notin {400, 404}
       /\ Idle

\* C12 witness: a create without credential and with a one-character
\* description was answered 401 in the auth stage.
C12_Witness ==
    /\ req.route = "create"
    /\ req.authorization = Undefined
    /\ req.task = Obj(Str(<<"A">>))
    /\ resp.status = 401
    /\ stages = <<"auth">>

\* The size of the store after request req, against the size it found.
SizeChange == Len(tasks) - Len(before.tasks)

\* C13: the size of the store goes up by exactly 1 across a create answered
\* 201, down by exactly 1 across a delete answered 204, to 0 on a reset, and
\* stays as it is across every other request (list, 400, 401, 404, 500); no
\* step changes it but the call of such a create or delete, or a reset.
C13_SizeChanges ==
    [][ /\ Done'
          => CASE req'.route = "create" /\ resp'.status = 201 -> SizeChange' = 1
               [] req'.route = "delete" /\ resp'.status = 204 -> SizeChange' = -1
               [] OTHER -> SizeChange' = 0
        /\ req'.route = "reset" => Len(tasks') = 0
        /\ Len(tasks') > Len(tasks)
             => req'.route = "create" /\ Len(tasks') = Len(tasks) + 1
        /\ Len(tasks') < Len(tasks)
             => \/ req'.route = "reset"
                \/ req'.route = "delete" /\ Len(tasks') = Len(tasks) - 1 ]_vars

\* C13 witness: a delete naming a stored task ended in 500 and both tasks
\* are still in the store.
C13_Witness ==
    /\ Done
    /\ req.route = "delete"
    /\ resp.status = 500
    /\ Len(tasks) = 2
    /\ \E i \in 1..Len(tasks) : req.id = ToText(tasks[i].id)

\* The request gets as far as a repository call.
StoreCalled(r) ==
    \/ r.route = "list"
    \/ r.route = "delete" /\ Authenticated(r)
    \/ StringCreate(r) /\ Len(Trim(r.task.description.chars)) >= 3

\* The create validation throws: the description is present and not a string.
ValidationThrows(r) ==
    /\ r.route = "create"
    /\ Authenticated(r)
    /\ Truthy(r.task)
    /\ Truthy(Description(r.task))
    /\ Description(r.task).type # "string"

\* C14: when the repository call of a handler fails, or the create
\* validation throws, the handler forwards the error to the error responder
\* (500) and sends no response of its own; the store is as before.
C14_FailureForwarded ==
    (Done /\ ((before.fault /\ StoreCalled(req)) \/ ValidationThrows(req)))
    => /\ events = <<Forwarded>>
       /\ resp = ErrorResponder
       /\ tasks = before.tasks
       /\ counter = before.counter

\* C14 witness: a list request over a non-empty store met a failing getAll
\* and ended in the error responder.
C14_Witness ==
    /\ Done
    /\ req.route = "list"
    /\ before.fault
    /\ resp = ErrorResponder
    /\ events = <<Forwarded>>
    /\ Len(tasks) >= 1
    /\ ~fault

\* C16: every request to one of the three routes ends with exactly one
\* outcome: one response out of 200, 201, 204, 400, 401, 404, or one
\* forward to the error responder, and has none while its handler is
\* suspended; a 400 or 401 is sent before any repository call.
C16_OneOutcome ==
    /\ Done
         => /\ Len(events) = 1
            /\ \/ /\ events[1] = Sent(resp.status)
                  /\ resp.status \in {200, 201, 204, 400, 401, 404}
               \/ /\ events[1] = Forwarded
                  /\ resp = ErrorResponder
            /\ resp.status \in {400, 401} => ~Reached(stages, "store")
    /\ (req.route \in Routes /\ ~Idle)
         => events = <<>> /\ resp = NoResponse

\* C16 witness: a create rejected by the presence test ended with the one
\* response 400 in the handler, the repository not called.
C16_Witness ==
    /\ Done
    /\ req.route = "create"
    /\ resp = Json(400, ErrorBody("Task is required"))
    /\ events = <<Sent(400)>>
    /\ stages = <<"auth", "handler">>

\* C17: a list request leaves the task sequence and the counter as it found
\* them; a list right after it returns the same body; and every create gets
\* the same answer after the list as it would have got before it.
C17_ListReadOnly ==
    (Done /\ req.route = "list")
    => /\ tasks = before.tasks
       /\ counter = before.counter
       /\ ListRoute(Store, AnyListRequest).resp.body = resp.body
       /\ \A task \in TaskValues :
            LET r == Request("create", ValidToken, task, <<>>)
            IN  CreateRoute(Store, r).resp = CreateRoute(Before, r).resp

\* C17 witness: a list request returned the two tasks left after three
\* creates and a delete, with the store unchanged.
C17_Witness ==
    /\ Done
    /\ req.route = "list"
    /\ resp = Json(200, TaskList(tasks))
    /\ Len(tasks) = 2
    /\ counter = 3

Awaiting == BagToSet(inflight)

HeldCreates == {h \in Awaiting : h.appended # <<>>}

HeldDeletes == {h \in Awaiting : h.dropped = 1}

\* Ids handed out so far: answered with 201, or held by a suspended create.
ConcStoreInv ==
    /\ \A k, l \in 1..Len(issued) : k # l => issued[k] # issued[l]
    /\ \A h \in HeldCreates :
         /\ Len(h.appended) = 1
         /\ CopiesIn(h, inflight) = 1
         /\ \A k \in 1..Len(issued) : issued[k] # h.appended[1].id
         /\ \A g \in HeldCreates \ {h} : g.appended[1].id # h.appended[1].id
    /\ \A h \in HeldDeletes : CopiesIn(h, inflight) = 1
    /\ counter = Len(issued) + Cardinality(HeldCreates)
    /\ Len(tasks) = counter - removed - Cardinality(HeldDeletes)
    /\ \A i, j \in 1..Len(tasks) : i < j => tasks[i].id < tasks[j].id

\* C15: with handlers interleaving at their awaits, no two creates get the
\* same id, no create or delete is lost (the counter and the size of the
\* store account for every call made), ids stay unique and in insertion
\* order, and a resumed handler answers for its own call: 201 with exactly
\* the task its create appended, 204 exactly when its delete removed a task.
C15_AtomicStoreOps ==
    [][ /\ ConcStoreInv'
        /\ \A h \in Awaiting :
             CopiesIn(h, inflight') < CopiesIn(h, inflight)
             => /\ h.appended # <<>>
                     => resp' = Json(201, TaskBody(h.appended[1]))
                /\ h.req.route = "delete"
                     => (resp'.status = 204) = (h.dropped = 1) ]_vars

\* C15 witness: a create was resumed and answered 201 with the first task,
\* after a second create had appended its task and while that one is still
\* suspended.
C15_Witness ==
    /\ req.route = "create"
    /\ resp.status = 201
    /\ Len(tasks) = 2
    /\ resp.body.task = tasks[1]
    /\ \E h \in Awaiting : h.appended = <<tasks[2]>>
====
